---- MODULE Spec2Model ----
(***************************************************************************)
(* Model of backend/app.py (weather-wise): the /api/tips request handler,  *)
(* the forecast normaliser, the rule-based tip engine, the focus override  *)
(* engine and the LLM tip generator.                                       *)
(*                                                                         *)
(* Numbers: temperatures in whole degrees, wind in whole mph, precipitation*)
(* in hundredths of an inch (so the source's 0.1 is 10).                   *)
(* Strings on which the code works character by character (focus tokens,   *)
(* descriptions, the location, the LLM text) are sequences of characters;  *)
(* tip sentences are atomic strings.                                       *)
(***************************************************************************)
EXTENDS Integers, Sequences, FiniteSets, TLC

VARIABLES
    WEATHERAPI_KEY,   \* TRUE iff the weather credential is a non-empty string
    llmActive,        \* TRUE iff GEMINI_API_KEY is set and genai imported
    pc,               \* position of the handler tips()
    body,             \* the parsed request body
    location_param,   \* the query passed to the forecast fetch
    provider,         \* what the weather provider answered to the one GET
    fetchRaised,      \* TRUE iff get_weather_forecast raised
    forecast,         \* the list returned by get_weather_forecast
    days,             \* the handler's list of response day entries
    log,              \* external effects in order: fetch, mock, llm
    llmFailed,        \* TRUE iff some LLM invocation of this request raised
    response,         \* the HTTP response of the handler
    fn,               \* tip functions: the function applied
    day,              \* tip functions: the day record
    focus,            \* tip functions: the `focus` argument
    focuses,          \* tip functions: the `focuses` argument
    tips,             \* tip functions: the base tip list
    text,             \* tip functions: the text the LLM returned
    result            \* tip functions: the value returned

handlerVars == <<WEATHERAPI_KEY, llmActive, pc, body, location_param, provider,
                 fetchRaised, forecast, days, log, llmFailed, response>>
pureVars == <<fn, day, focus, focuses, tips, text, result>>
vars == <<WEATHERAPI_KEY, llmActive, pc, body, location_param, provider,
          fetchRaised, forecast, days, log, llmFailed, response,
          fn, day, focus, focuses, tips, text, result>>

----------------------------------------------------------------------------
(* Python values *)

None == [t |-> "null"]
Missing == [t |-> "missing"]            \* key absent from a dict
Num(n) == [t |-> "num", n |-> n]
Str(s) == [t |-> "str", s |-> s]        \* s: sequence of characters
List(xs) == [t |-> "list", items |-> xs]
Text(x) == [t |-> "text", x |-> x]      \* a JSON string kept atomic

\* Python truth value of x
Truthy(x) ==
    CASE x.t = "null" -> FALSE
      [] x.t = "missing" -> FALSE
      [] x.t = "num" -> x.n # 0
      [] x.t = "str" -> x.s # <<>>
      [] x.t = "list" -> x.items # <<>>
      [] OTHER -> TRUE

\* x or y
Or(x, y) == IF Truthy(x) THEN x ELSE y

\* d.get(key, default)
Get(d, key, default) == IF d[key] = Missing THEN default ELSE d[key]

Min(a, b) == IF a < b THEN a ELSE b

\* xs[:n]
Take(xs, n) == SubSeq(xs, 1, Min(n, Len(xs)))

\* xs[a:b] (0-based, b exclusive)
Slice(xs, a, b) == SubSeq(xs, a + 1, Min(b, Len(xs)))

UpperChars == <<"A","B","C","D","E","F","G","H","I","J","K","L","M",
                "N","O","P","Q","R","S","T","U","V","W","X","Y","Z">>
LowerChars == <<"a","b","c","d","e","f","g","h","i","j","k","l","m",
                "n","o","p","q","r","s","t","u","v","w","x","y","z">>

LowerChar(c) ==
    IF \E i \in 1..Len(UpperChars) : UpperChars[i] = c
    THEN LowerChars[CHOOSE i \in 1..Len(UpperChars) : UpperChars[i] = c]
    ELSE c

\* s.lower()
Lower(s) == [i \in 1..Len(s) |-> LowerChar(s[i])]

\* sub in s
Contains(sub, s) ==
    \E i \in 0..(Len(s) - Len(sub)) : SubSeq(s, i + 1, i + Len(sub)) = sub

\* e in xs
InSeq(e, xs) == \E i \in 1..Len(xs) : xs[i] = e

thermostat == <<"t","h","e","r","m","o","s","t","a","t">>
sprinklers == <<"s","p","r","i","n","k","l","e","r","s">>
solar == <<"s","o","l","a","r">>
sunny == <<"s","u","n","n","y">>
clear == <<"c","l","e","a","r">>

----------------------------------------------------------------------------
(* Tip sentences *)

TipRain == "Rain expected - skip sprinklers, save water and pump energy."
TipDry == "Dry conditions - water in evening for efficiency."
TipHot == "Hot day - set thermostat 3F higher; use fans to cut A/C use."
TipCool == "Cool weather - lower heat by 2F and wear layers to save energy."
TipMild == "Mild temps - open windows instead of running HVAC systems."
TipWind == "High winds - expect good turbine output; delay noisy generator use."
TipCalm == "Calm conditions - run appliances during off-peak hours for savings."
FocusSprinklers == "Rain expected - skip sprinklers tomorrow to save water and energy."
FocusThermostat == "Hot day tomorrow - set thermostat ~3F higher and use fans to save A/C costs."
FocusSolar == "Sunny tomorrow - prioritize solar-powered usage for appliances/EV charging."

DefaultTemp == 70
HotAbove == 85
CoolBelow == 60
WindAbove == 15
PrecipAbove == 10

----------------------------------------------------------------------------
(* get_fallback_tips *)

get_fallback_tips(d) ==
    LET temp_max == Or(Get(d, "tempmax", Num(DefaultTemp)), Num(DefaultTemp)).n
        precip == Or(Get(d, "precip", Num(0)), Num(0)).n
        wind == Or(Get(d, "windspeed", Num(0)), Num(0)).n
        t1 == IF precip > PrecipAbove THEN TipRain ELSE TipDry
        t2 == IF temp_max > HotAbove THEN TipHot
              ELSE IF temp_max < CoolBelow THEN TipCool
              ELSE TipMild
        t3 == IF wind > WindAbove THEN TipWind ELSE TipCalm
    IN Take(<<t1, t2, t3>>, 3)

----------------------------------------------------------------------------
(* _apply_focus_rules *)

Recognized == {thermostat, sprinklers, solar}

\* [str(f).lower() for f in focuses if str(f).lower() in (...)]
RECURSIVE FilterRecognized(_)
FilterRecognized(fs) ==
    IF fs = <<>> THEN <<>>
    ELSE LET f == Lower(Head(fs))
         IN (IF f \in Recognized THEN <<f>> ELSE <<>>) \o FilterRecognized(Tail(fs))

Selected(f, fs) ==
    IF Truthy(fs) THEN FilterRecognized(fs.items)
    ELSE IF Truthy(f) THEN <<Lower(f.s)>>
    ELSE <<>>

Prefix(d, selected) ==
    LET desc == Lower(Or(Get(d, "description", None), Str(<<>>)).s)
        temp_max == Or(Get(d, "tempmax", Num(DefaultTemp)), Num(DefaultTemp)).n
        precip == Or(Get(d, "precip", Num(0)), Num(0)).n
    IN (IF InSeq(sprinklers, selected) /\ precip > PrecipAbove
        THEN <<FocusSprinklers>> ELSE <<>>)
       \o (IF InSeq(thermostat, selected) /\ temp_max > HotAbove
           THEN <<FocusThermostat>> ELSE <<>>)
       \o (IF InSeq(solar, selected) /\ (Contains(sunny, desc) \/ Contains(clear, desc))
           THEN <<FocusSolar>> ELSE <<>>)

\* focus consulted whenever focuses yields no recognized token
apply_focus_rules_any_focus(d, f, ts, fs) ==
    LET fromList == IF Truthy(fs) THEN FilterRecognized(fs.items) ELSE <<>>
        selected == IF fromList # <<>> THEN fromList
                    ELSE IF Truthy(f) THEN <<Lower(f.s)>> ELSE <<>>
    IN IF selected = <<>> THEN ts ELSE Take(Prefix(d, selected) \o ts, 3)

\* `tips + prefix` in place of `prefix + tips`
apply_focus_rules_append(d, f, ts, fs) ==
    LET selected == Selected(f, fs)
    IN IF selected = <<>> THEN ts
       ELSE Take(ts \o Prefix(d, selected), 3)

\* `"solar" in selected and "sunny" in desc or "clear" in desc`
apply_focus_rules_precedence(d, f, ts, fs) ==
    LET selected == Selected(f, fs)
        desc == Lower(Or(Get(d, "description", None), Str(<<>>)).s)
        extra == IF ~InSeq(solar, selected) /\ Contains(clear, desc)
                 THEN <<FocusSolar>> ELSE <<>>
    IN IF selected = <<>> THEN ts
       ELSE Take(Prefix(d, selected) \o extra \o ts, 3)

_apply_focus_rules(d, f, ts, fs) ==
    LET selected == Selected(f, fs)
    IN IF selected = <<>> THEN ts
       ELSE Take(Prefix(d, selected) \o ts, 3)

----------------------------------------------------------------------------
(* generate_tips_gemini *)

\* The text of the LLM is a sequence of units: a character, or a whole JSON
\* document (kept as the value json.loads gives for it).
Ch(c) == [t |-> "ch", c |-> c]
Doc(v) == [t |-> "doc", v |-> v]
Obj(sugg) == [t |-> "obj", suggestions |-> sugg]

Backtick == Ch("backtick")
Newline == Ch("newline")
Space == Ch("space")

Whitespace == {Space, Newline}
FenceChars == {Backtick, Newline, Space}

RECURSIVE LStrip(_, _)
LStrip(s, chars) ==
    IF s # <<>> /\ Head(s) \in chars THEN LStrip(Tail(s), chars) ELSE s

RECURSIVE RStrip(_, _)
RStrip(s, chars) ==
    IF s # <<>> /\ s[Len(s)] \in chars THEN RStrip(SubSeq(s, 1, Len(s) - 1), chars) ELSE s

\* s.strip(chars)
Strip(s, chars) == RStrip(LStrip(s, chars), chars)

ParseError == [t |-> "error"]

\* json.loads(s): leading and trailing whitespace is allowed around one document
json_loads(s) ==
    LET core == Strip(s, Whitespace)
    IN IF Len(core) = 1 /\ core[1].t = "doc" THEN core[1].v ELSE ParseError

\* str(x)
PyStr(x) ==
    CASE x.t = "text" -> x.x
      [] x.t = "num" -> ToString(x.n)
      [] x.t = "null" -> "None"
      [] OTHER -> "?"

\* lines 195-202: the three coerced tips, or ParseError when the try block
\* falls through or an exception is swallowed
llm_suggestions(txt) ==
    LET stripped == Strip(Strip(Or(txt, Str(<<>>)).s, Whitespace), FenceChars)
        data == json_loads(stripped)
    IN IF data.t # "obj" THEN ParseError
       ELSE LET out == Get(data, "suggestions", None)
            IN IF out.t = "list" /\ Len(out.items) = 3
               THEN List([i \in 1..3 |-> PyStr(out.items[i])])
               ELSE ParseError

\* `len(out) >= 3` in place of `len(out) == 3`
generate_tips_gemini_at_least_3(d, f, fs, active, txt) ==
    IF ~active THEN _apply_focus_rules(d, f, get_fallback_tips(d), fs)
    ELSE LET stripped == Strip(Strip(Or(txt, Str(<<>>)).s, Whitespace), FenceChars)
             data == json_loads(stripped)
             out == IF data.t = "obj" THEN Get(data, "suggestions", None) ELSE None
         IN IF out.t = "list" /\ Len(out.items) >= 3
            THEN _apply_focus_rules(d, f, [i \in 1..Len(out.items) |-> PyStr(out.items[i])], fs)
            ELSE _apply_focus_rules(d, f, get_fallback_tips(d), fs)

\* The value returned when the LLM (if active) returned txt.
generate_tips_gemini(d, f, fs, active, txt) ==
    IF ~active THEN _apply_focus_rules(d, f, get_fallback_tips(d), fs)
    ELSE LET out == llm_suggestions(txt)
         IN IF out.t = "list"
            THEN _apply_focus_rules(d, f, out.items, fs)
            ELSE _apply_focus_rules(d, f, get_fallback_tips(d), fs)

----------------------------------------------------------------------------
(* Inputs *)

MaxTips == 4          \* longest base tip list tried
MaxFocuses == 2       \* longest `focuses` list tried
MaxSuggestions == 4   \* longest `suggestions` list tried

Sunny == <<"S","u","n","n","y">>
SunnySkies == <<"S","u","n","n","y"," ","s","k","i","e","s">>
MostlyCLEAR == <<"M","o","s","t","l","y"," ","C","L","E","A","R">>
LightRain == <<"L","i","g","h","t"," ","r","a","i","n">>
Solar == <<"S","o","l","a","r">>
lighting == <<"l","i","g","h","t","i","n","g">>

GeneralTips == [i \in 1..(MaxTips + 1) |-> "general tip " \o ToString(i)]
BaseTipLists == {SubSeq(GeneralTips, 1, n) : n \in 0..MaxTips}

Tokens == {Solar, sprinklers, thermostat, lighting}
FocusValues == {None, Str(<<>>), Str(Solar), Str(thermostat), Str(lighting)}

RECURSIVE SeqsUpTo(_, _)
SeqsUpTo(S, n) ==
    IF n = 0 THEN {<<>>}
    ELSE LET shorter == SeqsUpTo(S, n - 1)
         IN shorter \cup {Append(xs, e) : xs \in shorter, e \in S}

FocusesValues == {None} \cup {List(xs) : xs \in SeqsUpTo(Tokens, MaxFocuses)}

MkDay(tmax, pr, wind, desc) ==
    [precip |-> pr, date |-> Str(<<"d">>), tempmin |-> Num(50), tempmax |-> tmax,
     humidity |-> Num(40), windspeed |-> wind, description |-> desc]

TempValues == {Missing, Num(0 - 5), Num(0), Num(59), Num(60), Num(85), Num(86)}
PrecipValues == {Missing, Num(0), Num(10), Num(11)}
WindValues == {Missing, Num(0), Num(15), Num(16)}

RuleDays == {MkDay(a, b, c, Str(Sunny)) : a \in TempValues, b \in PrecipValues, c \in WindValues}
FocusDescValues == {None, Str(SunnySkies), Str(MostlyCLEAR), Str(LightRain)}
FocusDays == {MkDay(a, b, Num(5), c) : a \in {Num(0), Num(85), Num(86)},
                                       b \in {Num(10), Num(11)}, c \in FocusDescValues}
             \cup {MkDay(None, Missing, Missing, Missing)}
GeminiDays == {MkDay(Num(90), Num(20), Num(5), Str(Sunny)),
               MkDay(Num(0), Num(0), Num(20), Str(LightRain))}

Items == <<Text("llm tip 1"), Num(2), None, Text("llm tip 4"), Text("llm tip 5")>>
SuggestionLists == {List(SubSeq(Items, 1, n)) : n \in 0..MaxSuggestions}
JsonValues == {Obj(Missing), Obj(None), Obj(Text("three tips")), List(SubSeq(Items, 1, 3)),
               Text("tips"), None}
              \cup {Obj(l) : l \in SuggestionLists}
Fence == <<Backtick, Backtick, Backtick>>
Word == <<Ch("j"), Ch("s"), Ch("o"), Ch("n")>>
LlmTexts ==
    {None, Str(<<>>), Str(<<Ch("s"), Ch("o"), Ch("r"), Ch("r"), Ch("y")>>)}
    \cup {Str(<<Doc(v)>>) : v \in JsonValues}
    \cup {Str(<<Space>> \o Fence \o <<Newline, Doc(v), Newline>> \o Fence) : v \in JsonValues}
    \cup {Str(Fence \o Word \o <<Newline, Doc(v), Newline>> \o Fence) : v \in JsonValues}
    \cup {Str(<<Doc(v), Space, Ch("o"), Ch("k")>>) : v \in JsonValues}

----------------------------------------------------------------------------
(* _mock_forecast_3_days *)

\* One day of the mock generator for each description it can draw; the
\* random numbers are taken at the ends of their ranges.
MockDay(desc, hi) ==
    [precip |-> Num(IF hi THEN 50 ELSE 0),
     date |-> Str(<<"d">>),
     tempmin |-> Num(IF hi THEN 65 ELSE 55),
     tempmax |-> Num(IF hi THEN 85 ELSE 70),
     humidity |-> Num(IF hi THEN 84 ELSE 35),
     windspeed |-> Num(IF hi THEN 25 ELSE 5),
     description |-> Str(desc)]

MockDays == {MockDay(SunnySkies, TRUE), MockDay(LightRain, FALSE)}

\* the lists _mock_forecast_3_days can return: offsets 1, 2, 3
MockForecasts == {<<a, b, a>> : a \in MockDays, b \in MockDays}

----------------------------------------------------------------------------
(* get_weather_forecast *)

MaxForecastDays == 4    \* longest forecastday list the provider sends

us == <<"u","s">>
Clear == <<"C","l","e","a","r">>
metric == <<"m","e","t","r","i","c">>

ProviderDay(minf, maxf, minc, maxc, wind, pr, hum, cond) ==
    [mintemp_f |-> minf, maxtemp_f |-> maxf, mintemp_c |-> minc, maxtemp_c |-> maxc,
     maxwind_mph |-> wind, totalprecip_in |-> pr, avghumidity |-> hum, condition |-> cond]

HotDay == ProviderDay(Num(70), Num(90), Num(21), Num(32), Num(5), Num(0), Num(40),
                      [text |-> Str(Sunny)])
FreezingDay == ProviderDay(Num(14), Num(32), Num(0 - 10), Num(0), Num(20), Num(20), Num(80),
                           [text |-> Str(LightRain)])
SparseDay == ProviderDay(Missing, Missing, Missing, Missing, Missing, None, Missing, Missing)

\* the k-th entry of the provider's forecastday list
ForecastDay(k) ==
    [day |-> CASE k % 4 = 1 -> HotDay
               [] k % 4 = 2 -> FreezingDay
               [] k % 4 = 3 -> SparseDay
               [] OTHER -> Missing,
     date |-> Str(<<"d">>)]

ForecastDayLists == {[k \in 1..n |-> ForecastDay(k)] : n \in 0..MaxForecastDays}

\* What the provider can answer to the one GET: no answer (transport
\* failure), an HTTP status, and for status 200 a body.
HttpStatuses == {400, 401, 403, 404, 429, 500, 503}
ProviderOutcomes ==
    {[kind |-> "transport", status |-> 0, shape |-> "none", forecastday |-> <<>>]}
    \cup {[kind |-> "http", status |-> st, shape |-> "none", forecastday |-> <<>>] :
             st \in HttpStatuses}
    \cup {[kind |-> "http", status |-> 200, shape |-> sh, forecastday |-> <<>>] :
             sh \in {"not_json", "non_object", "forecast_missing", "forecast_null",
                     "forecastday_missing", "forecastday_null"}}
    \cup {[kind |-> "http", status |-> 200, shape |-> "forecastday_list", forecastday |-> l] :
             l \in ForecastDayLists}

\* lines 90-116: one canonical day from one forecastday entry
NormalizeDay(fd, unit_group) ==
    LET d == fd.day
        get(key) == IF d = Missing THEN None ELSE Get(d, key, None)
        condition == IF d = Missing THEN Missing ELSE d.condition
        isUs == unit_group = Str(us)
    IN [precip |-> Or(get("totalprecip_in"), Num(0)),
        date |-> fd.date,
        tempmin |-> IF isUs THEN get("mintemp_f") ELSE get("mintemp_c"),
        tempmax |-> IF isUs THEN get("maxtemp_f") ELSE get("maxtemp_c"),
        humidity |-> get("avghumidity"),
        windspeed |-> get("maxwind_mph"),
        description |-> IF condition = Missing THEN Str(Clear) ELSE condition.text]

Raised == [t |-> "raised"]

\* The result of get_weather_forecast when a key is set and the provider
\* answered o: a set of possible returns (the mock is random), Raised among
\* them when the call raises.
\*   transport failure            -> RequestException           -> mock
\*   status 401, 403, 429         -> HTTPError, handled         -> mock
\*   any other status >= 400      -> HTTPError, re-raised
\*   200, body not JSON           -> requests' JSONDecodeError, a
\*                                   RequestException            -> mock
\*   200, JSON but not an object  -> data.get: AttributeError
\*   200, "forecast": null        -> None.get: AttributeError
\*   200, "forecastday": null     -> None[1:4]: TypeError
\*   200, a key missing           -> the defaults {} and []
FetchResults(o, unit_group) ==
    IF o.kind = "transport" THEN {List(m) : m \in MockForecasts}
    ELSE IF o.status >= 400
    THEN (IF o.status \in {401, 403, 429} THEN {List(m) : m \in MockForecasts} ELSE {Raised})
    ELSE CASE o.shape = "not_json" -> {List(m) : m \in MockForecasts}
           [] o.shape \in {"non_object", "forecast_null", "forecastday_null"} -> {Raised}
           [] o.shape \in {"forecast_missing", "forecastday_missing"} -> {List(<<>>)}
           [] OTHER ->
                LET picked == Slice(o.forecastday, 1, 4)
                IN {List([i \in 1..Len(picked) |-> NormalizeDay(picked[i], unit_group)])}

\* TRUE iff get_weather_forecast falls back to the mock on answer o
UsesMock(o) ==
    \/ o.kind = "transport"
    \/ o.status \in {401, 403, 429}
    \/ o.status = 200 /\ o.shape = "not_json"

----------------------------------------------------------------------------
(* tips: the handler of POST /api/tips *)

Paris == <<"P","a","r","i","s">>
Blank == <<" "," ">>
PaddedParis == <<" ">> \o Paris \o <<" ">>
NoneChars == <<"N","o","n","e">>

\* str(x) for the location field
LocationStr(x) ==
    CASE x.t = "str" -> x.s
      [] x.t = "null" -> NoneChars
      [] OTHER -> <<>>

\* s.strip() on a character sequence
StripChars(s) ==
    LET ws == {" "}
        RECURSIVE L(_), R(_)
        L(x) == IF x # <<>> /\ Head(x) \in ws THEN L(Tail(x)) ELSE x
        R(x) == IF x # <<>> /\ x[Len(x)] \in ws THEN R(SubSeq(x, 1, Len(x) - 1)) ELSE x
    IN R(L(s))

\* The request bodies tried: a body that is not JSON, a JSON array, and
\* JSON objects over these field values.
LocationValues == <<Str(PaddedParis), Str(Blank), Str(<<>>), Missing, None>>
LatValues == <<Num(0), Missing, None>>
LonValues == <<Num(0), Missing>>
Options ==
    <<[focus |-> Missing, focuses |-> Missing, unit_group |-> Missing],
      [focus |-> Str(Solar), focuses |-> Missing, unit_group |-> Str(metric)],
      [focus |-> Str(solar), focuses |-> List(<<sprinklers, lighting>>), unit_group |-> Str(us)]>>

ObjectBody(l, a, b, o) ==
    [focus |-> o.focus, focuses |-> o.focuses, t |-> "obj", unit_group |-> o.unit_group,
     location |-> l, lat |-> a, lon |-> b]

MalformedBodies == {[t |-> "invalid"], [t |-> "array"]}

\* what the LLM does on one invocation: it raises (API error, timeout, a
\* blocked answer whose .text raises) or it returns a text
LlmOutcomes ==
    {Raised,
     Str(<<Doc(Obj(List(SubSeq(Items, 1, 3))))>>),
     Str(<<Doc(Obj(List(SubSeq(Items, 1, 2))))>>)}

Event(e, i) == [i |-> i, e |-> e]
NoResponse == [days |-> <<>>, status |-> 0]
Error(st) == [days |-> <<>>, status |-> st]

Init ==
    /\ WEATHERAPI_KEY \in BOOLEAN
    /\ llmActive \in BOOLEAN
    /\ pc = "idle"
    /\ body = None
    /\ location_param = None
    /\ provider = None
    /\ fetchRaised = FALSE
    /\ forecast = <<>>
    /\ days = <<>>
    /\ log = <<>>
    /\ llmFailed = FALSE
    /\ response = NoResponse
    /\ fn = "none" /\ day = None /\ focus = None /\ focuses = None
    /\ tips = <<>> /\ text = None /\ result = None

\* lines 209-226 for the body b: parse, validate, resolve the location
ReceiveBody(b) ==
    /\ pc = "idle"
    /\ body' = b
    /\ IF b.t # "obj"
       THEN \* get_json raises, or a list has no .get: except -> 500
            /\ response' = Error(500)
            /\ pc' = "done"
            /\ UNCHANGED location_param
       ELSE LET location == StripChars(LocationStr(Get(b, "location", Str(<<>>))))
                lat == Get(b, "lat", None)
                lon == Get(b, "lon", None)
            IN IF (lat = None \/ lon = None) /\ location = <<>>
               THEN /\ response' = Error(400)
                    /\ pc' = "done"
                    /\ UNCHANGED location_param
               ELSE /\ location_param' =
                          IF lat # None /\ lon # None
                          THEN [t |-> "latlon", lat |-> lat, lon |-> lon]
                          ELSE Str(location)
                    /\ pc' = "fetch"
                    /\ UNCHANGED response
    /\ UNCHANGED <<WEATHERAPI_KEY, llmActive, provider, fetchRaised, forecast, days,
                   log, llmFailed, pureVars>>

Receive ==
    \/ \E li \in DOMAIN LocationValues, ai \in DOMAIN LatValues,
          bi \in DOMAIN LonValues, oi \in DOMAIN Options :
            ReceiveBody(ObjectBody(LocationValues[li], LatValues[ai], LonValues[bi], Options[oi]))
    \/ \E b \in MalformedBodies : ReceiveBody(b)

\* line 228: forecast = get_weather_forecast(location_param, unit_group)
GetWeatherForecast ==
    /\ pc = "fetch"
    /\ IF ~WEATHERAPI_KEY
       THEN /\ \E m \in MockForecasts : forecast' = m
            /\ log' = log \o <<Event("get_weather_forecast", 0), Event("mock", 0)>>
            /\ pc' = "tips"
            /\ UNCHANGED <<provider, fetchRaised, response>>
       ELSE \E o \in ProviderOutcomes :
            \E r \in FetchResults(o, Get(body, "unit_group", Str(us))) :
                /\ provider' = o
                /\ log' = log \o <<Event("get_weather_forecast", 0), Event("http_get", 0)>>
                               \o (IF UsesMock(o) THEN <<Event("mock", 0)>> ELSE <<>>)
                /\ IF r = Raised
                   THEN /\ fetchRaised' = TRUE
                        /\ response' = Error(500)
                        /\ pc' = "done"
                        /\ UNCHANGED forecast
                   ELSE /\ forecast' = r.items
                        /\ pc' = "tips"
                        /\ UNCHANGED <<fetchRaised, response>>
    /\ UNCHANGED <<WEATHERAPI_KEY, llmActive, body, location_param, days, llmFailed, pureVars>>

\* lines 231-247: one iteration of the loop over the forecast
GenerateTips ==
    /\ pc = "tips"
    /\ Len(days) < Len(forecast)
    /\ LET i == Len(days) + 1
           d == forecast[i]
           f == Get(body, "focus", None)
           fs == Get(body, "focuses", None)
           entry(sugg) == [suggestions |-> sugg, date |-> d.date, weather |-> d]
       IN IF ~llmActive
          THEN /\ days' = Append(days, entry(generate_tips_gemini(d, f, fs, FALSE, None)))
               /\ log' = Append(log, Event("generate_tips_gemini", i))
               /\ UNCHANGED <<pc, response, llmFailed>>
          ELSE \E o \in LlmOutcomes :
               /\ log' = log \o <<Event("generate_tips_gemini", i), Event("llm", i)>>
               /\ IF o = Raised
                  THEN \* line 191 is outside the try: the exception reaches tips()
                       /\ llmFailed' = TRUE
                       /\ response' = Error(500)
                       /\ pc' = "done"
                       /\ UNCHANGED days
                  ELSE /\ days' = Append(days, entry(generate_tips_gemini(d, f, fs, TRUE, o)))
                       /\ UNCHANGED <<pc, response, llmFailed>>
    /\ UNCHANGED <<WEATHERAPI_KEY, llmActive, body, location_param, provider, fetchRaised,
                   forecast, pureVars>>

\* line 249: the loop is over, the response is built
Respond ==
    /\ pc = "tips"
    /\ Len(days) = Len(forecast)
    /\ response' = [days |-> days, status |-> 200]
    /\ pc' = "done"
    /\ UNCHANGED <<WEATHERAPI_KEY, llmActive, body, location_param, provider, fetchRaised,
                   forecast, days, log, llmFailed, pureVars>>

Next == Receive \/ GetWeatherForecast \/ GenerateTips \/ Respond

Spec == Init /\ [][Next]_vars

----------------------------------------------------------------------------
(* The three tip functions applied to drawn inputs *)

Idle == [t |-> "idle"]

PureInit ==
    /\ result = Idle
    /\ \/ /\ fn = "get_fallback_tips"
          /\ day \in RuleDays
          /\ focus = None /\ focuses = None /\ tips = <<>> /\ text = None
       \/ /\ fn = "_apply_focus_rules"
          /\ day \in FocusDays
          /\ focus \in FocusValues
          /\ focuses \in FocusesValues
          /\ tips \in BaseTipLists
          /\ text = None
       \/ /\ fn = "generate_tips_gemini"
          /\ day \in GeminiDays
          /\ focus \in {None, Str(solar), Str(lighting)}
          /\ focuses \in {None, List(<<sprinklers, thermostat>>), List(<<lighting>>)}
          /\ tips = <<>>
          /\ text \in LlmTexts
    /\ WEATHERAPI_KEY = FALSE /\ llmActive = TRUE /\ pc = "none" /\ body = None
    /\ location_param = None /\ provider = None /\ fetchRaised = FALSE
    /\ forecast = <<>> /\ days = <<>> /\ log = <<>> /\ llmFailed = FALSE
    /\ response = NoResponse

CallFallback ==
    /\ fn = "get_fallback_tips" /\ result = Idle
    /\ result' = List(get_fallback_tips(day))
    /\ UNCHANGED <<handlerVars, fn, day, focus, focuses, tips, text>>

CallFocus ==
    /\ fn = "_apply_focus_rules" /\ result = Idle
    /\ result' = List(_apply_focus_rules(day, focus, tips, focuses))
    /\ UNCHANGED <<handlerVars, fn, day, focus, focuses, tips, text>>

CallGemini ==
    /\ fn = "generate_tips_gemini" /\ result = Idle
    /\ result' = List(generate_tips_gemini(day, focus, focuses, TRUE, text))
    /\ UNCHANGED <<handlerVars, fn, day, focus, focuses, tips, text>>

PureNext == CallFallback \/ CallFocus \/ CallGemini

SpecTips == PureInit /\ [][PureNext]_vars

----------------------------------------------------------------------------
(* Properties of the tip functions, under SpecTips *)

Returned(f) == fn = f /\ result # Idle

IsNum(x) == x.t = "num"

\* The tokens of the selector in force, lower-cased: `focuses` when it is a
\* non-empty list, otherwise the single `focus`.
SelectorTokens ==
    IF focuses.t = "list" /\ focuses.items # <<>>
    THEN {Lower(focuses.items[i]) : i \in 1..Len(focuses.items)}
    ELSE IF focus.t = "str" /\ focus.s # <<>> THEN {Lower(focus.s)}
    ELSE {}

DayPrecip == IF IsNum(day.precip) THEN day.precip.n ELSE 0
DayTempmax == IF IsNum(day.tempmax) THEN day.tempmax.n ELSE DefaultTemp
DayDesc == IF day.description.t = "str" THEN Lower(day.description.s) ELSE <<>>

ExpectedPrefix ==
    (IF sprinklers \in SelectorTokens /\ DayPrecip > PrecipAbove
     THEN <<FocusSprinklers>> ELSE <<>>)
    \o (IF thermostat \in SelectorTokens /\ DayTempmax > HotAbove
        THEN <<FocusThermostat>> ELSE <<>>)
    \o (IF solar \in SelectorTokens /\ (Contains(sunny, DayDesc) \/ Contains(clear, DayDesc))
        THEN <<FocusSolar>> ELSE <<>>)

\* C4: generate_tips_gemini returns applyFocus(day, focus, T): T is the three
\* elements of the LLM coerced to text iff the text (fencing stripped) is one
\* JSON object whose `suggestions` is a list of exactly 3 elements, and
\* get_fallback_tips(day) in every other case.
TextCore == IF text.t = "str" THEN Strip(text.s, FenceChars) ELSE <<>>
TextAccepted ==
    /\ Len(TextCore) = 1
    /\ TextCore[1].t = "doc"
    /\ TextCore[1].v.t = "obj"
    /\ TextCore[1].v.suggestions.t = "list"
    /\ Len(TextCore[1].v.suggestions.items) = 3
C4_GeminiParseOrFallback ==
    Returned("generate_tips_gemini") =>
        LET T == IF TextAccepted
                 THEN [i \in 1..3 |-> PyStr(TextCore[1].v.suggestions.items[i])]
                 ELSE get_fallback_tips(day)
        IN result.items = _apply_focus_rules(day, focus, T, focuses)

\* a fenced, well-shaped answer with the solar focus firing on top of it
C4_Witness ==
    /\ Returned("generate_tips_gemini")
    /\ TextAccepted /\ text.s[1] = Space /\ text.s[2] = Backtick
    /\ focus = Str(solar) /\ focuses = None
    /\ result.items = <<FocusSolar, "llm tip 1", "2">>

\* a well-formed answer with four suggestions falls back to the rules
C4_WitnessFallback ==
    /\ Returned("generate_tips_gemini")
    /\ text = Str(<<Doc(Obj(List(SubSeq(Items, 1, 4))))>>)
    /\ focus = None /\ focuses = None
    /\ result.items = get_fallback_tips(day)

\* C5: for numeric tempmax, precip and windspeed (0 and negative values
\* included) get_fallback_tips returns [irrigation, climate, wind] chosen by
\* the thresholds on the values themselves.
C5_FallbackByThresholds ==
    (Returned("get_fallback_tips") /\ IsNum(day.tempmax) /\ IsNum(day.precip)
        /\ IsNum(day.windspeed)) =>
        result.items =
            << IF day.precip.n > PrecipAbove THEN TipRain ELSE TipDry,
               IF day.tempmax.n > HotAbove THEN TipHot
               ELSE IF day.tempmax.n < CoolBelow THEN TipCool ELSE TipMild,
               IF day.windspeed.n > WindAbove THEN TipWind ELSE TipCalm >>

\* C6: with at least one recognized token selected, _apply_focus_rules returns
\* the first 3 entries of prefix ++ baseTips, the prefix in the fixed order
\* sprinklers, thermostat, solar; never more than 3 entries, prefix tips first.
C6_FocusPrefixThenTruncate ==
    (Returned("_apply_focus_rules") /\ SelectorTokens \cap Recognized # {}) =>
        /\ result.items = Take(ExpectedPrefix \o tips, 3)
        /\ Len(result.items) <= 3
        /\ SubSeq(result.items, 1, Len(ExpectedPrefix)) = ExpectedPrefix

\* two prefix tips fire, selected in the opposite order, and push out two of
\* three general tips
C6_Witness ==
    /\ Returned("_apply_focus_rules")
    /\ focuses = List(<<Solar, sprinklers>>)
    /\ Len(tips) = 3
    /\ result.items = <<FocusSprinklers, FocusSolar, tips[1]>>

C10_FocusIgnoredWhenFocusesGiven ==
    (Returned("_apply_focus_rules") /\ focuses.t = "list" /\ focuses.items # <<>>) =>
        /\ \A f \in FocusValues :
               _apply_focus_rules(day, f, tips, focuses) = result.items
        /\ (\A i \in 1..Len(focuses.items) : Lower(focuses.items[i]) \notin Recognized)
               => result.items = tips

C10_Witness ==
    /\ Returned("_apply_focus_rules")
    /\ focus = Str(Solar) /\ focuses = List(<<lighting>>)
    /\ day.description = Str(SunnySkies)
    /\ Len(tips) = 3 /\ result.items = tips

----------------------------------------------------------------------------
(* Properties of the request handler, under Spec *)

CountEvents(e, i) == Cardinality({k \in 1..Len(log) : log[k] = Event(e, i)})

\* C1: a successful response has exactly 3 day entries, each with exactly 3
\* tips, whatever the provider and the LLM returned.
C1_ThreeDaysThreeTips ==
    response.status = 200 =>
        /\ Len(response.days) = 3
        /\ \A i \in 1..Len(response.days) : Len(response.days[i].suggestions) = 3

\* C2: with a credential configured, get_weather_forecast raises iff the
\* provider answered with an HTTP error status outside {401, 403, 429}; on a
\* transport failure or a status in {401, 403, 429} it returns a 3-day mock.
HardHttpError == provider.kind = "http" /\ provider.status >= 400
                    /\ provider.status \notin {401, 403, 429}
SoftFailure == provider.kind = "transport" \/ provider.status \in {401, 403, 429}
C2_ErrorIffHardHttpError ==
    (WEATHERAPI_KEY /\ provider # None) =>
        /\ fetchRaised <=> HardHttpError
        /\ SoftFailure => (~fetchRaised /\ forecast \in MockForecasts)

\* C3: with the LLM configured, a failing LLM invocation is absorbed by
\* generate_tips_gemini and never turns the request into an error response.
C3_LlmFailureAbsorbed ==
    llmFailed => response.status # 500

\* C8: a request with no non-blank location and without both lat and lon is
\* rejected with 400 and causes no forecast fetch, mock or LLM call; every
\* other request passes validation.
HasLocation == body.location.t = "str"
                  /\ \E i \in 1..Len(body.location.s) : body.location.s[i] # " "
HasLatLon == body.lat.t = "num" /\ body.lon.t = "num"
C8_RejectedIffNoLocation ==
    (pc # "idle" /\ body.t = "obj") =>
        /\ response.status = 400 <=> (~HasLocation /\ ~HasLatLon)
        /\ response.status = 400 => log = <<>>

\* C9: an accepted request fetches the forecast exactly once, before any tip
\* generation; tip generation runs once per forecast day in forecast order,
\* and with the LLM active the LLM is invoked exactly once per day.
C9_OneFetchOneLlmCallPerDay ==
    /\ log # <<>> => (log[1] = Event("get_weather_forecast", 0)
                        /\ CountEvents("get_weather_forecast", 0) = 1)
    /\ \A i \in 1..Len(forecast) :
          /\ CountEvents("generate_tips_gemini", i) <= 1
          /\ CountEvents("llm", i) <= 1
          /\ (i > 1 /\ CountEvents("generate_tips_gemini", i) = 1)
                => CountEvents("generate_tips_gemini", i - 1) = 1
    /\ (pc = "done" /\ log # <<>> /\ ~fetchRaised) =>
          \A i \in 1..Len(forecast) :
              /\ CountEvents("generate_tips_gemini", i) = 1
              /\ CountEvents("llm", i) = (IF llmActive THEN 1 ELSE 0)

====
